---- MODULE Spec2Model ----
(***************************************************************************)
(* Model of the in-memory WebDAV lock system of src/src/memls.rs (MemLs).  *)
(*                                                                         *)
(* The path trie (tree::Tree<Vec<u8>, Vec<DavLock>>) is a function from    *)
(* the segment chain of a node to the node's lock list; its domain is the  *)
(* set of nodes that exist.  The arena's numeric node ids are replaced by  *)
(* the segment chain that get_child reaches them by.                       *)
(*                                                                         *)
(* The tree module itself is not in memls.rs.  Its operations follow the   *)
(* Path Trie contract of the design (get_child, add_child, delete_node,    *)
(* delete_subtree, get_children): delete_node removes a leaf and is an     *)
(* error, which MemLs::unlock ignores, on a node with children;            *)
(* delete_subtree removes the node and everything beneath it, the root     *)
(* included, after which get_or_create_path_node finds no node to unwrap.  *)
(*                                                                         *)
(* Spec runs the calls of one handle over all the paths, SpecTime runs     *)
(* them with an owner, timeouts and a clock, and SpecConc runs two threads *)
(* that each make one call, of any method, through clones of a handle that *)
(* was used before: locks may be held and paths deleted when they start.   *)
(***************************************************************************)
EXTENDS Integers, Sequences, FiniteSets, TLC

\* ---------------------------------------------------------------- bounds
MaxTokens == 2      \* locks granted in one run (tokens 1..MaxTokens)
MaxClock  == 1      \* SystemTime::now() ranges over 0..MaxClock
MaxHeld   == 1      \* locks granted before the threads of SpecConc start

\* ---------------------------------------------------------------- inputs
\* A path is the byte string of a WebPath, one element per byte.
Paths ==
    { <<"/">>,
      <<"/", "a">>,
      <<"/", "a", "/">>,
      <<"/", "b">>,
      <<"/", "a", "/", "b">> }

\* The paths of the runs that follow owners, timeouts and the clock.
TimePaths == { <<"/", "a">>, <<"/", "a", "/", "b">> }

NoOwner  == <<>>                       \* Option<Element>: None
AnOwner  == <<"o">>                    \* Option<Element>: Some(owner)
Timeouts == { <<>>, <<0>> }            \* Option<Duration>: None, Some(0 s)
Tokens   == 1 .. MaxTokens
Threads  == { 1, 2 }

\* The paths the threads of SpecConc call with.
ConcPaths == { <<"/">>, <<"/", "a">>, <<"/", "a", "/", "b">> }

\* ------------------------------------------------------------ the trie
ROOT_ID == <<>>

\* path.split(|&c| c == b'/').filter(|s| s.len() > 0).collect()
RECURSIVE split_from(_, _, _)
split_from(bytes, i, cur) ==
    LET flush == IF cur = <<>> THEN <<>> ELSE <<cur>> IN
    IF i > Len(bytes) THEN flush
    ELSE IF bytes[i] = "/" THEN flush \o split_from(bytes, i + 1, <<>>)
    ELSE split_from(bytes, i + 1, Append(cur, bytes[i]))

segs_of(path) == split_from(path, 1, <<>>)

\* tree.get_child(node_id, seg): Ok(child) or Err
has_child(tree, node_id, seg) ==
    node_id \in DOMAIN tree /\ Append(node_id, seg) \in DOMAIN tree

\* tree.get_children(node_id)
get_children(tree, node_id) ==
    { n \in DOMAIN tree : Len(n) = Len(node_id) + 1
                          /\ SubSeq(n, 1, Len(node_id)) = node_id }

\* the node and everything beneath it
subtree(tree, node_id) ==
    { n \in DOMAIN tree : Len(n) >= Len(node_id)
                          /\ SubSeq(n, 1, Len(node_id)) = node_id }

\* tree.add_child(parent, key, data, false)
add_child(tree, node_id, seg) ==
    [ n \in DOMAIN tree \cup { Append(node_id, seg) } |->
        IF n \in DOMAIN tree THEN tree[n] ELSE <<>> ]

\* tree.delete_node(node_id): removes a leaf; an error, and no change, when
\* the node has children.
delete_node(tree, node_id) ==
    IF node_id \notin DOMAIN tree \/ get_children(tree, node_id) # {}
    THEN tree
    ELSE [ n \in DOMAIN tree \ { node_id } |-> tree[n] ]

\* tree.delete_subtree(node_id): removes the node and everything beneath it.
delete_subtree(tree, node_id) ==
    [ n \in DOMAIN tree \ subtree(tree, node_id) |-> tree[n] ]

\* --------------------------------------------------------------- results
Ok(v)  == [ tag |-> "Ok",  val |-> v ]
Err(v) == [ tag |-> "Err", val |-> v ]

\* The outcome of a call that panicked: an unwrap() of an error or of None.
Panic == [ tag |-> "Panic", val |-> <<>> ]

\* -------------------------------------------------- the conflict checker
\* A walk that evaluates every lock of every node, deep or not.
RECURSIVE walk_locks_every_lock(_, _, _)
walk_locks_every_lock(tree, segs, i) ==
    IF i > Len(segs) THEN <<>>
    ELSE LET node_id == SubSeq(segs, 1, i) IN
         IF node_id \notin DOMAIN tree THEN <<>>
         ELSE tree[node_id] \o walk_locks_every_lock(tree, segs, i + 1)

\* A walk that evaluates the locks of the last node only.
walk_locks_last_only(tree, segs, i) ==
    IF segs \in DOMAIN tree THEN tree[segs] ELSE <<>>

\* The locks the walk of check_locks_to_path evaluates, in order: the walk
\* stops at the first missing node, and skips a lock that is not deep on a
\* node that is not the last segment.
RECURSIVE walk_locks(_, _, _)
walk_locks(tree, segs, i) ==
    IF i > Len(segs) THEN <<>>
    ELSE LET node_id == SubSeq(segs, 1, i) IN
         IF node_id \notin DOMAIN tree THEN <<>>
         ELSE SelectSeq(tree[node_id],
                        LAMBDA nl : ~(i < Len(segs) /\ ~nl.deep))
              \o walk_locks(tree, segs, i + 1)

\* A scan that treats an exclusive lock like a shared one.
RECURSIVE scan_locks_none_fatal(_, _, _, _, _, _)
scan_locks_none_fatal(locks, k, submitted_tokens, shared_ok, holds_lock, first_lock_seen) ==
    IF k > Len(locks)
    THEN IF ~holds_lock /\ first_lock_seen # <<>>
         THEN Err(first_lock_seen)
         ELSE Ok(<<>>)
    ELSE LET nl == locks[k] IN
         IF nl.token \in submitted_tokens
         THEN scan_locks_none_fatal(locks, k + 1, submitted_tokens, shared_ok,
                                    TRUE, first_lock_seen)
         ELSE scan_locks_none_fatal(locks, k + 1, submitted_tokens, shared_ok,
                                    holds_lock,
                                    IF ~shared_ok /\ first_lock_seen = <<>>
                                    THEN <<nl>> ELSE first_lock_seen)

\* A scan that reports the first shared lock whose own token is missing,
\* whatever other token matched.
RECURSIVE scan_locks_each_token(_, _, _, _, _, _)
scan_locks_each_token(locks, k, submitted_tokens, shared_ok, holds_lock, first_lock_seen) ==
    IF k > Len(locks)
    THEN IF first_lock_seen # <<>>
         THEN Err(first_lock_seen)
         ELSE Ok(<<>>)
    ELSE LET nl == locks[k] IN
         IF nl.token \in submitted_tokens
         THEN scan_locks_each_token(locks, k + 1, submitted_tokens, shared_ok,
                                    TRUE, first_lock_seen)
         ELSE IF ~nl.shared
         THEN Err(<<nl>>)
         ELSE scan_locks_each_token(locks, k + 1, submitted_tokens, shared_ok,
                                    holds_lock,
                                    IF ~shared_ok /\ first_lock_seen = <<>>
                                    THEN <<nl>> ELSE first_lock_seen)

\* The body of the inner loop over the evaluated locks, with the state
\* holds_lock and first_lock_seen, and the test after the walk.
RECURSIVE scan_locks(_, _, _, _, _, _)
scan_locks(locks, k, submitted_tokens, shared_ok, holds_lock, first_lock_seen) ==
    IF k > Len(locks)
    THEN IF ~holds_lock /\ first_lock_seen # <<>>
         THEN Err(first_lock_seen)
         ELSE Ok(<<>>)
    ELSE LET nl == locks[k] IN
         IF nl.token \in submitted_tokens
         THEN scan_locks(locks, k + 1, submitted_tokens, shared_ok, TRUE,
                         first_lock_seen)
         ELSE IF ~nl.shared
         THEN Err(<<nl>>)
         ELSE scan_locks(locks, k + 1, submitted_tokens, shared_ok, holds_lock,
                         IF ~shared_ok /\ first_lock_seen = <<>>
                         THEN <<nl>> ELSE first_lock_seen)

check_locks_to_path(tree, path, submitted_tokens, shared_ok) ==
    scan_locks(walk_locks(tree, segs_of(path), 0), 1, submitted_tokens,
               shared_ok, FALSE, <<>>)

\* lookup_node: the node of the path, when every segment has a node.  The
\* root id is returned for a path without segments whether or not the root
\* node exists.
lookup_node(tree, path) ==
    LET segs == segs_of(path) IN
    IF \A i \in 1 .. Len(segs) :
          has_child(tree, SubSeq(segs, 1, i - 1), segs[i])
    THEN <<segs>> ELSE <<>>

\* A check that looks at the node and not at the nodes below it.
check_locks_from_node_only(tree, node_id, shared_ok) ==
    IF node_id \notin DOMAIN tree THEN {}
    ELSE LET bad == SelectSeq(tree[node_id],
                              LAMBDA nl : ~nl.shared \/ ~shared_ok) IN
         IF bad # <<>> THEN { bad[1] } ELSE {}

\* The locks check_locks_from_node can return: the first lock of the node
\* that is exclusive or meets a request that is not shared; else what the
\* children return.  The children are visited in the order of a HashMap,
\* so any child with a conflict can be the first one.
RECURSIVE check_locks_from_node(_, _, _)
check_locks_from_node(tree, node_id, shared_ok) ==
    IF node_id \notin DOMAIN tree THEN {}
    ELSE LET bad == SelectSeq(tree[node_id],
                              LAMBDA nl : ~nl.shared \/ ~shared_ok) IN
         IF bad # <<>> THEN { bad[1] }
         ELSE UNION { check_locks_from_node(tree, c, shared_ok) :
                        c \in get_children(tree, node_id) }

check_locks_from_path(tree, path, shared_ok) ==
    LET node == lookup_node(tree, path) IN
    IF node = <<>> THEN {}
    ELSE check_locks_from_node(tree, node[1], shared_ok)

\* lookup_lock: the first node below the root, on the path, with a lock that
\* carries the token.
RECURSIVE lookup_lock_from(_, _, _, _)
lookup_lock_from(tree, segs, i, token) ==
    IF i > Len(segs) THEN <<>>
    ELSE IF ~has_child(tree, SubSeq(segs, 1, i - 1), segs[i]) THEN <<>>
    ELSE LET n == SubSeq(segs, 1, i) IN
         IF \E k \in 1 .. Len(tree[n]) : tree[n][k].token = token
         THEN <<n>>
         ELSE lookup_lock_from(tree, segs, i + 1, token)

lookup_lock(tree, path, token) == lookup_lock_from(tree, segs_of(path), 1, token)

\* list_locks: the locks of the root node and of each node on the path, up
\* to the first missing one.
RECURSIVE list_locks_from(_, _, _)
list_locks_from(tree, segs, i) ==
    IF i > Len(segs) THEN <<>>
    ELSE IF ~has_child(tree, SubSeq(segs, 1, i - 1), segs[i]) THEN <<>>
    ELSE tree[SubSeq(segs, 1, i)] \o list_locks_from(tree, segs, i + 1)

\* A listing that, like lookup_lock, starts below the root node.
list_locks_skips_root(tree, path) == list_locks_from(tree, segs_of(path), 1)

list_locks(tree, path) ==
    (IF ROOT_ID \in DOMAIN tree THEN tree[ROOT_ID] ELSE <<>>)
    \o list_locks_from(tree, segs_of(path), 1)

\* get_or_create_path_node: Ok with the tree that has every node of the
\* path, or Panic.  add_child returns an error for a parent that is not in
\* the tree and get_node_mut for a node that is not; both are unwrapped, so
\* on a tree that lost its root the function panics for every path.
RECURSIVE create_path_from(_, _, _)
create_path_from(tree, segs, i) ==
    LET node_id == SubSeq(segs, 1, i - 1) IN
    IF i > Len(segs)
    THEN IF node_id \in DOMAIN tree THEN Ok(<<tree>>) ELSE Panic
    ELSE IF has_child(tree, node_id, segs[i])
    THEN create_path_from(tree, segs, i + 1)
    ELSE IF node_id \notin DOMAIN tree THEN Panic
    ELSE create_path_from(add_child(tree, node_id, segs[i]), segs, i + 1)

get_or_create_path_node(tree, path) == create_path_from(tree, segs_of(path), 1)

\* position(|n| n.token == token)
position(locks, token) ==
    CHOOSE k \in 1 .. Len(locks) :
        /\ locks[k].token = token
        /\ \A j \in 1 .. k - 1 : locks[j].token # token

\* Vec::remove(idx)
remove_at(locks, idx) ==
    SubSeq(locks, 1, idx - 1) \o SubSeq(locks, idx + 1, Len(locks))

\* ----------------------------------------------------------------- state
VARIABLES
    tree,        \* MemLsInner.tree: node -> Vec<DavLock>
    poisoned,    \* the Mutex is poisoned: a call panicked while holding it
    uuid,        \* the number of tokens Uuid::new_v4() has produced
    now,         \* SystemTime::now()
    ret,         \* the last call that returned: its name and its result
    mutex,       \* the thread that holds the Mutex, 0 when it is free
    pc,          \* where each thread is in its call
    call,        \* the method and the arguments of each thread's call
    out,         \* what each thread's call returned
    base         \* the manager when the first thread made its call

vars == << tree, poisoned, uuid, now, ret, mutex, pc, call, out, base >>
threads == << mutex, pc, call, out, base >>

\* A generator that produces the same token again.
new_v4_repeats(n) == 1

\* Uuid::new_v4().urn().to_string(): a token no earlier call produced
new_v4(n) == n + 1

\* match timeout { None => None, Some(d) => Some(SystemTime::now() + d) }
timeout_at_of(timeout, t) ==
    IF timeout = <<>> THEN <<>> ELSE << t + timeout[1] >>

DavLock(token, path, owner, timeout_at, timeout, shared, deep) ==
    [ token |-> token, path |-> path, owner |-> owner,
      timeout_at |-> timeout_at, timeout |-> timeout,
      shared |-> shared, deep |-> deep ]

\* The record of a call: the operation, Ok or Err, the token of the lock it
\* returned (0 when it returned no lock) and, for a delete, its path.
Returned(op, res) ==
    [ op |-> op, tag |-> res.tag,
      tok |-> IF res.tag \in { "Ok", "Err" } /\ Len(res.val) = 1
              THEN res.val[1].token ELSE 0,
      path |-> <<>> ]

NoCall ==
    [ op |-> "lock", path |-> <<"/">>, shared |-> FALSE, deep |-> FALSE,
      token |-> 1, tokens |-> {}, busy |-> 0 ]

\* MemLs::new
Init ==
    /\ tree = [ n \in { ROOT_ID } |-> <<>> ]
    /\ poisoned = FALSE
    /\ uuid = 0
    /\ now = 0
    /\ ret = Returned("new", Ok(<<>>))
    /\ mutex = 0
    /\ pc = [ t \in Threads |-> "start" ]
    /\ call = [ t \in Threads |-> NoCall ]
    /\ out = [ t \in Threads |-> Ok(<<>>) ]
    /\ base = [ tree |-> tree, uuid |-> uuid, poisoned |-> poisoned ]

\* ------------------------------------------------------------ operations
\* A lock that checks the path as if every request were exclusive.
lock_conflicts_shared_ignored(t, path, shared, deep) ==
    LET to_path == check_locks_to_path(t, path, {}, FALSE) IN
    IF to_path.tag = "Err" THEN { to_path.val[1] }
    ELSE IF deep THEN check_locks_from_path(t, path, shared)
    ELSE {}

\* A lock whose checks pass over the locks whose timeout_at has passed.
lock_conflicts_skips_expired(t, path, shared, deep) ==
    LET live == [ n \in DOMAIN t |->
                    SelectSeq(t[n], LAMBDA l : l.timeout_at = <<>>
                                               \/ l.timeout_at[1] >= now) ]
        to_path == check_locks_to_path(live, path, {}, shared) IN
    IF to_path.tag = "Err" THEN { to_path.val[1] }
    ELSE IF deep THEN check_locks_from_path(live, path, shared)
    ELSE {}

\* A lock that runs the subtree check whether or not the request is deep.
lock_conflicts_always_deep(t, path, shared, deep) ==
    LET to_path == check_locks_to_path(t, path, {}, shared) IN
    IF to_path.tag = "Err" THEN { to_path.val[1] }
    ELSE check_locks_from_path(t, path, shared)

\* The conflict MemLs::lock returns, as a set: empty when the lock is
\* granted.
lock_conflicts(t, path, shared, deep) ==
    LET to_path == check_locks_to_path(t, path, {}, shared) IN
    IF to_path.tag = "Err" THEN { to_path.val[1] }
    ELSE IF deep THEN check_locks_from_path(t, path, shared)
    ELSE {}

\* MemLs::lock after its checks: Ok with the tree that has the lock pushed
\* on the node of its path, or Panic when get_or_create_path_node panics.
lock_push(t, lock) ==
    LET created == get_or_create_path_node(t, lock.path)
        node_id == segs_of(lock.path) IN
    IF created.tag = "Panic" THEN Panic
    ELSE Ok(<< [ created.val[1] EXCEPT ![node_id] = Append(@, lock) ] >>)

\* A lock that creates the node of the path before it runs the checks.
Lock_creates_node_first(path, owner, timeout, shared, deep) ==
    /\ ~poisoned
    /\ LET created == get_or_create_path_node(tree, path)
           lock == DavLock(new_v4(uuid), path, owner,
                           timeout_at_of(timeout, now), timeout, shared, deep) IN
       IF created.tag = "Panic"
       THEN /\ poisoned' = TRUE
            /\ ret' = Returned("lock", Panic)
            /\ UNCHANGED << tree, uuid >>
       ELSE LET conflicts == lock_conflicts(created.val[1], path, shared, deep) IN
            IF conflicts # {}
            THEN /\ \E l \in conflicts : ret' = Returned("lock", Err(<<l>>))
                 /\ tree' = created.val[1]
                 /\ UNCHANGED << poisoned, uuid >>
            ELSE /\ uuid < MaxTokens
                 /\ tree' = lock_push(tree, lock).val[1]
                 /\ ret' = Returned("lock", Ok(<<lock>>))
                 /\ uuid' = new_v4(uuid)
                 /\ UNCHANGED poisoned
    /\ UNCHANGED << now, threads >>

\* MemLs::lock
Lock(path, owner, timeout, shared, deep) ==
    /\ ~poisoned
    /\ LET conflicts == lock_conflicts(tree, path, shared, deep) IN
       IF conflicts # {}
       THEN /\ \E l \in conflicts : ret' = Returned("lock", Err(<<l>>))
            /\ UNCHANGED << tree, poisoned, uuid >>
       ELSE LET lock == DavLock(new_v4(uuid), path, owner,
                                timeout_at_of(timeout, now), timeout,
                                shared, deep)
                pushed == lock_push(tree, lock) IN
            IF pushed.tag = "Panic"
            THEN \* get_or_create_path_node unwraps a missing node: the
                 \* call panics with the Mutex held
                 /\ poisoned' = TRUE
                 /\ ret' = Returned("lock", Panic)
                 /\ UNCHANGED << tree, uuid >>
            ELSE /\ uuid < MaxTokens
                 /\ tree' = pushed.val[1]
                 /\ ret' = Returned("lock", Ok(<<lock>>))
                 /\ uuid' = new_v4(uuid)
                 /\ UNCHANGED poisoned
    /\ UNCHANGED << now, threads >>

\* An unlock that removes an emptied node together with the nodes below it.
unlock_node_drops_subtree(t, node_id, token) ==
    LET locks == remove_at(t[node_id], position(t[node_id], token))
        removed == [ t EXCEPT ![node_id] = locks ] IN
    IF Len(locks) = 0 THEN delete_subtree(removed, node_id) ELSE removed

\* The tree after MemLs::unlock removed the token's lock from the node.
unlock_node(t, node_id, token) ==
    LET locks == remove_at(t[node_id], position(t[node_id], token))
        removed == [ t EXCEPT ![node_id] = locks ] IN
    IF Len(locks) = 0 THEN delete_node(removed, node_id) ELSE removed

\* MemLs::unlock: the result and the tree it leaves.
unlock(t, path, token) ==
    LET node == lookup_lock(t, path, token) IN
    IF node = <<>> THEN [ res |-> Err(<<>>), tree |-> t ]
    ELSE [ res |-> Ok(<<>>), tree |-> unlock_node(t, node[1], token) ]

Unlock(path, token) ==
    /\ ~poisoned
    /\ tree' = unlock(tree, path, token).tree
    /\ ret' = Returned("unlock", unlock(tree, path, token).res)
    /\ UNCHANGED << poisoned, uuid, now, threads >>

\* A refresh that builds the lock anew and loses its owner.
refresh_lock_drops_owner(lock, timeout, t) ==
    [ lock EXCEPT !.timeout = timeout,
                  !.timeout_at = timeout_at_of(timeout, t),
                  !.owner = <<>> ]

\* The lock MemLs::refresh leaves in place of the token's lock.
refresh_lock(lock, timeout, t) ==
    [ lock EXCEPT !.timeout = timeout,
                  !.timeout_at = timeout_at_of(timeout, t) ]

\* MemLs::refresh: the result and the tree it leaves.
refresh(t, path, token, timeout, clock) ==
    LET node == lookup_lock(t, path, token) IN
    IF node = <<>> THEN [ res |-> Err(<<>>), tree |-> t ]
    ELSE LET idx == position(t[node[1]], token)
             lock == refresh_lock(t[node[1]][idx], timeout, clock) IN
         [ res |-> Ok(<<lock>>),
           tree |-> [ t EXCEPT ![node[1]][idx] = lock ] ]

Refresh(path, token, timeout) ==
    /\ ~poisoned
    /\ tree' = refresh(tree, path, token, timeout, now).tree
    /\ ret' = Returned("refresh", refresh(tree, path, token, timeout, now).res)
    /\ UNCHANGED << poisoned, uuid, now, threads >>

\* A check that lets every shared lock pass.
check_shared_ok(t, path, submitted_tokens) ==
    check_locks_to_path(t, path, submitted_tokens, TRUE)

\* MemLs::check
check(t, path, submitted_tokens) ==
    check_locks_to_path(t, path, submitted_tokens, FALSE)

\* A check that takes the tree mutably and creates the nodes of the path.
Check_creates_nodes(path, submitted_tokens) ==
    /\ ~poisoned
    /\ LET created == get_or_create_path_node(tree, path) IN
       IF created.tag = "Panic"
       THEN /\ poisoned' = TRUE
            /\ ret' = Returned("check", Panic)
            /\ UNCHANGED tree
       ELSE /\ ret' = Returned("check", check(tree, path, submitted_tokens))
            /\ tree' = created.val[1]
            /\ UNCHANGED poisoned
    /\ UNCHANGED << uuid, now, threads >>

Check(path, submitted_tokens) ==
    /\ ~poisoned
    /\ ret' = Returned("check", check(tree, path, submitted_tokens))
    /\ UNCHANGED << tree, poisoned, uuid, now, threads >>

\* MemLs::discover
discover(t, path) == list_locks(t, path)

Discover(path) ==
    /\ ~poisoned
    /\ ret' = Returned("discover", Ok(discover(tree, path)))
    /\ UNCHANGED << tree, poisoned, uuid, now, threads >>

\* A delete that removes the node of the path and not the nodes below it.
delete_node_only(t, path) ==
    LET node == lookup_node(t, path) IN
    IF node = <<>> THEN t
    ELSE [ n \in DOMAIN t \ { node[1] } |-> t[n] ]

\* MemLs::delete: the tree it leaves.
delete(t, path) ==
    LET node == lookup_node(t, path) IN
    IF node = <<>> THEN t ELSE delete_subtree(t, node[1])

Delete(path) ==
    /\ ~poisoned
    /\ tree' = delete(tree, path)
    /\ ret' = [ Returned("delete", Ok(<<>>)) EXCEPT !.path = path ]
    /\ UNCHANGED << poisoned, uuid, now, threads >>

\* The clock advances between calls.
Tick ==
    /\ now < MaxClock
    /\ now' = now + 1
    /\ UNCHANGED << tree, poisoned, uuid, ret, threads >>

\* Calls of one handle, one after the other, without owners or timeouts.
Next ==
    \/ \E path \in Paths, shared \in BOOLEAN, deep \in BOOLEAN :
          Lock(path, NoOwner, <<>>, shared, deep)
    \/ \E path \in Paths, token \in Tokens : Unlock(path, token)
    \/ \E path \in Paths, token \in Tokens : Refresh(path, token, <<>>)
    \/ \E path \in Paths, submitted_tokens \in SUBSET Tokens :
          Check(path, submitted_tokens)
    \/ \E path \in Paths : Discover(path)
    \/ \E path \in Paths : Delete(path)

Spec == Init /\ [][Next]_vars

\* Calls with owners and timeouts, while the clock advances.
NextTime ==
    \/ \E path \in TimePaths, timeout \in Timeouts,
          shared \in BOOLEAN, deep \in BOOLEAN :
          Lock(path, AnOwner, timeout, shared, deep)
    \/ \E path \in TimePaths, token \in Tokens : Unlock(path, token)
    \/ \E path \in TimePaths, token \in Tokens, timeout \in Timeouts :
          Refresh(path, token, timeout)
    \/ \E path \in TimePaths, submitted_tokens \in SUBSET Tokens :
          Check(path, submitted_tokens)
    \/ \E path \in TimePaths : Discover(path)
    \/ \E path \in TimePaths : Delete(path)
    \/ Tick

SpecTime == Init /\ [][NextTime]_vars

\* ------------------------------------------- threads with cloned handles
\* A Mutex that never makes a caller wait.
mutex_never_held(m) == TRUE

\* self.0.lock(): the Mutex can be taken when no thread holds it
mutex_free(m) == m = 0

\* No thread has made its call: the handle is used by its owner alone.
not_started == \A t \in Threads : pc[t] = "start"

\* The manager as the first thread to call finds it.
base_at_call ==
    IF not_started
    THEN [ tree |-> tree, uuid |-> uuid, poisoned |-> poisoned ]
    ELSE base

\* A thread calls MemLs::lock through its clone of the handle; busy records
\* the thread that is inside a call at that moment.
LockCall(t, path, shared, deep) ==
    /\ pc[t] = "start"
    /\ pc' = [ pc EXCEPT ![t] = "wait" ]
    /\ call' = [ call EXCEPT ![t] =
                   [ NoCall EXCEPT !.op = "lock", !.path = path,
                                   !.shared = shared, !.deep = deep,
                                   !.busy = mutex ] ]
    /\ base' = base_at_call
    /\ UNCHANGED << tree, poisoned, uuid, now, ret, mutex, out >>

\* A thread calls unlock, refresh, check, discover or delete through its
\* clone of the handle.
OpCall(t, op, path, token, submitted_tokens) ==
    /\ pc[t] = "start"
    /\ pc' = [ pc EXCEPT ![t] = "wait" ]
    /\ call' = [ call EXCEPT ![t] =
                   [ NoCall EXCEPT !.op = op, !.path = path, !.token = token,
                                   !.tokens = submitted_tokens,
                                   !.busy = mutex ] ]
    /\ base' = base_at_call
    /\ UNCHANGED << tree, poisoned, uuid, now, ret, mutex, out >>

\* let inner = &mut *self.0.lock().unwrap(), the first statement of every
\* method: the thread takes the Mutex once it is free.  On a poisoned Mutex
\* lock() returns an error at once and unwrap() panics: the call ends, and
\* the Mutex stays free and poisoned.
LockEnter(t) ==
    /\ pc[t] = "wait"
    /\ mutex_free(mutex)
    /\ IF poisoned
       THEN /\ out' = [ out EXCEPT ![t] = Panic ]
            /\ ret' = Returned(call[t].op, Panic)
            /\ pc' = [ pc EXCEPT ![t] = "done" ]
            /\ UNCHANGED mutex
       ELSE /\ mutex' = t
            /\ pc' = [ pc EXCEPT ![t] = "check" ]
            /\ UNCHANGED << ret, out >>
    /\ UNCHANGED << tree, poisoned, uuid, now, call, base >>

\* check_locks_to_path(..)?; if deep { check_locks_from_path(..)? }
LockCheck(t) ==
    /\ pc[t] = "check"
    /\ call[t].op = "lock"
    /\ LET conflicts == lock_conflicts(tree, call[t].path, call[t].shared,
                                       call[t].deep) IN
       IF conflicts # {}
       THEN /\ \E l \in conflicts :
                 /\ out' = [ out EXCEPT ![t] = Err(<<l>>) ]
                 /\ ret' = Returned("lock", Err(<<l>>))
            /\ pc' = [ pc EXCEPT ![t] = "done" ]
            /\ mutex' = 0
       ELSE /\ pc' = [ pc EXCEPT ![t] = "create" ]
            /\ UNCHANGED << out, ret, mutex >>
    /\ UNCHANGED << tree, poisoned, uuid, now, call, base >>

\* create lock: get_or_create_path_node, push, Ok(lock)
LockCreate(t) ==
    /\ pc[t] = "create"
    /\ LET lock == DavLock(new_v4(uuid), call[t].path, NoOwner, <<>>, <<>>,
                           call[t].shared, call[t].deep)
           pushed == lock_push(tree, lock) IN
       IF pushed.tag = "Panic"
       THEN /\ poisoned' = TRUE
            /\ out' = [ out EXCEPT ![t] = Panic ]
            /\ ret' = Returned("lock", Panic)
            /\ UNCHANGED << tree, uuid >>
       ELSE /\ tree' = pushed.val[1]
            /\ out' = [ out EXCEPT ![t] = Ok(<<lock>>) ]
            /\ ret' = Returned("lock", Ok(<<lock>>))
            /\ uuid' = new_v4(uuid)
            /\ UNCHANGED poisoned
    /\ pc' = [ pc EXCEPT ![t] = "done" ]
    /\ mutex' = 0
    /\ UNCHANGED << now, call, base >>

\* What unlock, refresh, check, discover and delete, called with the
\* arguments of c at time clock, return and the tree they leave.
op_result(t, c, clock) ==
    CASE c.op = "unlock"   -> unlock(t, c.path, c.token)
      [] c.op = "refresh"  -> refresh(t, c.path, c.token, <<>>, clock)
      [] c.op = "check"    -> [ res |-> check(t, c.path, c.tokens), tree |-> t ]
      [] c.op = "discover" -> [ res |-> Ok(discover(t, c.path)), tree |-> t ]
      [] c.op = "delete"   -> [ res |-> Ok(<<>>), tree |-> delete(t, c.path) ]

\* The body of unlock, refresh, check, discover or delete, run by the
\* thread that holds the Mutex; the Mutex is released when it returns.
OpRun(t) ==
    /\ pc[t] = "check"
    /\ call[t].op # "lock"
    /\ LET r == op_result(tree, call[t], now) IN
       /\ tree' = r.tree
       /\ out' = [ out EXCEPT ![t] = r.res ]
       /\ ret' = IF call[t].op = "delete"
                 THEN [ Returned("delete", r.res) EXCEPT !.path = call[t].path ]
                 ELSE Returned(call[t].op, r.res)
    /\ pc' = [ pc EXCEPT ![t] = "done" ]
    /\ mutex' = 0
    /\ UNCHANGED << poisoned, uuid, now, call, base >>

\* The owner of the handle acquires up to MaxHeld locks and deletes paths;
\* then two threads each make one call through a clone of the handle.
NextConc ==
    \/ \E path \in ConcPaths, shared \in BOOLEAN, deep \in BOOLEAN :
          /\ not_started
          /\ uuid < MaxHeld
          /\ Lock(path, NoOwner, <<>>, shared, deep)
    \/ \E path \in ConcPaths : not_started /\ Delete(path)
    \/ \E t \in Threads, path \in ConcPaths, shared \in BOOLEAN, deep \in BOOLEAN :
          LockCall(t, path, shared, deep)
    \/ \E t \in Threads, path \in ConcPaths, token \in Tokens :
          OpCall(t, "unlock", path, token, {})
    \/ \E t \in Threads, path \in ConcPaths, token \in Tokens :
          OpCall(t, "refresh", path, token, {})
    \/ \E t \in Threads, path \in ConcPaths, submitted_tokens \in SUBSET Tokens :
          OpCall(t, "check", path, NoCall.token, submitted_tokens)
    \/ \E t \in Threads, path \in ConcPaths :
          OpCall(t, "discover", path, NoCall.token, {})
    \/ \E t \in Threads, path \in ConcPaths :
          OpCall(t, "delete", path, NoCall.token, {})
    \/ \E t \in Threads : LockEnter(t)
    \/ \E t \in Threads : LockCheck(t)
    \/ \E t \in Threads : LockCreate(t)
    \/ \E t \in Threads : OpRun(t)

SpecConc == Init /\ [][NextConc]_vars

\* ================================================================ claims
\* The places of the held locks: a node and an index in its lock list.
entries(t) == UNION { { <<n, k>> : k \in 1 .. Len(t[n]) } : n \in DOMAIN t }
lock_at(t, e) == t[e[1]][e[2]]

is_prefix(a, b) == Len(a) <= Len(b) /\ SubSeq(b, 1, Len(a)) = a
strictly_below(q, n) == Len(n) < Len(q) /\ is_prefix(n, q)

\* A lock attached at node n covers q: it is attached at q, or it is deep and
\* attached at a proper ancestor of q.
covers(n, lock, q) == n = q \/ (lock.deep /\ strictly_below(q, n))

Nodes == { segs_of(p) : p \in Paths }

\* The held locks that cover node q.
covering(t, q) ==
    { lock_at(t, e) : e \in { e \in entries(t) : covers(e[1], lock_at(t, e), q) } }

\* The tree without the lock at place e (its node stays).
without(t, e) == [ t EXCEPT ![e[1]] = remove_at(@, e[2]) ]

\* C1: mutual exclusion: in every reachable state, an exclusive lock that
\* covers a path is the only lock that covers it.
C1_MutualExclusion ==
    \A q \in Nodes : \A e1, e2 \in entries(tree) :
        ( /\ covers(e1[1], lock_at(tree, e1), q)
          /\ covers(e2[1], lock_at(tree, e2), q)
          /\ ~lock_at(tree, e1).shared )
        => e1 = e2

\* A deep exclusive lock is held next to a lock outside its scope, and the
\* last acquire was refused because of the exclusive lock.
C1_Witness ==
    \E e1, e2 \in entries(tree) :
        /\ ~lock_at(tree, e1).shared /\ lock_at(tree, e1).deep
        /\ e1[1] # <<>>
        /\ ~is_prefix(e1[1], e2[1])
        /\ ret.op = "lock" /\ ret.tag = "Err"
        /\ ret.tok = lock_at(tree, e1).token

\* C2 (as amended): while an exclusive lock is held, every acquire on a path
\* the lock covers (its own path, and the paths below it when it is deep)
\* fails with Conflict, and the conflict returned is that lock.
C2_ExclusiveBlocksItsScope ==
    \A e \in entries(tree) : \A p \in Paths, shared \in BOOLEAN, deep \in BOOLEAN :
        ( /\ ~lock_at(tree, e).shared
          /\ covers(e[1], lock_at(tree, e), segs_of(p)) )
        => lock_conflicts(tree, p, shared, deep) = { lock_at(tree, e) }

\* C2 as claimed: every acquire on the path of a held exclusive lock or on
\* any descendant of it fails with that lock as the conflict.
C2_Claimed ==
    \A e \in entries(tree) : \A p \in Paths, shared \in BOOLEAN, deep \in BOOLEAN :
        ( /\ ~lock_at(tree, e).shared
          /\ is_prefix(e[1], segs_of(p)) )
        => lock_conflicts(tree, p, shared, deep) = { lock_at(tree, e) }

\* An exclusive deep lock is held, and the last call, an acquire, returned
\* it as the conflict; acquires below it conflict with it.
C2_Witness ==
    \E e \in entries(tree) : \E p \in Paths :
        /\ ~lock_at(tree, e).shared /\ lock_at(tree, e).deep
        /\ strictly_below(segs_of(p), e[1])
        /\ lock_conflicts(tree, p, TRUE, FALSE) = { lock_at(tree, e) }
        /\ ret.op = "lock" /\ ret.tag = "Err"
        /\ ret.tok = lock_at(tree, e).token

\* C3: every held lock, the root's included, is released by release(P, T)
\* with the path it was acquired at and its token: the release returns Ok,
\* the lock is gone, and an acquire with the same parameters succeeds.
C3_ReleaseThenAcquire ==
    \A e \in entries(tree) :
        LET lock == lock_at(tree, e)
            r == unlock(tree, lock.path, lock.token) IN
        /\ r.res.tag = "Ok"
        /\ \A e2 \in entries(r.tree) : lock_at(r.tree, e2).token # lock.token
        /\ lock_conflicts(r.tree, lock.path, lock.shared, lock.deep) = {}

\* The same for the locks attached below the root.
C3_BelowRoot ==
    \A e \in entries(tree) :
        LET lock == lock_at(tree, e)
            r == unlock(tree, lock.path, lock.token) IN
        e[1] # ROOT_ID =>
        /\ r.res.tag = "Ok"
        /\ \A e2 \in entries(r.tree) : lock_at(r.tree, e2).token # lock.token
        /\ lock_conflicts(r.tree, lock.path, lock.shared, lock.deep) = {}

\* One call of MemLs::lock run alone on tree t with u tokens produced: the
\* results it can return, each with the tree and the token count it leaves.
lock_alone(t, u, c) ==
    LET conflicts == lock_conflicts(t, c.path, c.shared, c.deep)
        lock == DavLock(new_v4(u), c.path, NoOwner, <<>>, <<>>, c.shared, c.deep) IN
    IF conflicts # {}
    THEN { [ tree |-> t, uuid |-> u, out |-> Err(<<l>>) ] : l \in conflicts }
    ELSE IF lock_push(t, lock).tag = "Panic"
    THEN { [ tree |-> t, uuid |-> u, out |-> Panic ] }
    ELSE { [ tree |-> lock_push(t, lock).val[1], uuid |-> new_v4(u),
             out |-> Ok(<<lock>>) ] }

EmptyTree == [ n \in { ROOT_ID } |-> <<>> ]

\* One call of any method run alone on the manager m (a tree, the number of
\* tokens produced and the poison flag of the Mutex): the results it can
\* return, each with the manager it leaves.  On a poisoned Mutex every
\* method panics at its first statement.
call_alone(m, c) ==
    IF m.poisoned
    THEN { [ tree |-> m.tree, uuid |-> m.uuid, poisoned |-> TRUE, out |-> Panic ] }
    ELSE IF c.op = "lock"
    THEN { [ tree |-> o.tree, uuid |-> o.uuid, poisoned |-> o.out = Panic,
             out |-> o.out ] : o \in lock_alone(m.tree, m.uuid, c) }
    ELSE LET r == op_result(m.tree, c, now) IN
         { [ tree |-> r.tree, uuid |-> m.uuid, poisoned |-> FALSE,
             out |-> r.res ] }

\* The two threads' calls have returned what they return when run one after
\* the other, a first and then b, on the manager the threads found, and
\* have left the manager that leaves.
in_order(a, b) ==
    \E o1 \in call_alone(base, call[a]) :
        \E o2 \in call_alone([ tree |-> o1.tree, uuid |-> o1.uuid,
                               poisoned |-> o1.poisoned ], call[b]) :
            /\ out[a] = o1.out
            /\ out[b] = o2.out
            /\ tree = o2.tree
            /\ uuid = o2.uuid
            /\ poisoned = o2.poisoned

both_done == \A t \in Threads : pc[t] = "done"
both_lock == \A t \in Threads : call[t].op = "lock"
same_node == segs_of(call[1].path) = segs_of(call[2].path)

\* No lock held when the threads started covers the node of their path.
uncovered == covering(base.tree, segs_of(call[1].path)) = {}

\* Each of the two acquires is granted when it is run alone on the manager
\* the threads found.
both_grantable ==
    \A t \in Threads :
        \A o \in call_alone(base, call[t]) : o.out.tag = "Ok"

\* One of the two calls returned a lock, which is held, and the other
\* returned Conflict with that lock.
one_winner ==
    \E w, l \in Threads :
        /\ w # l
        /\ out[w].tag = "Ok"
        /\ out[l].tag = "Err"
        /\ out[l].val = out[w].val
        /\ \E e \in entries(tree) : lock_at(tree, e) = out[w].val[1]

\* At most one thread is inside a method, and two calls that have returned
\* have returned what they return, and left what they leave, run one after
\* the other in some order.
serial ==
    /\ Cardinality({ t \in Threads : pc[t] \in { "check", "create" } }) <= 1
    /\ both_done => (in_order(1, 2) \/ in_order(2, 1))

\* C4: calls issued through cloned handles take effect one at a time, in
\* some order, on the one shared state; when two threads acquire
\* exclusively the same path, which no lock covers, exactly one call
\* returns a lock and the other returns Conflict with the winner's lock, in
\* every interleaving.
C4_OneWinner ==
    /\ serial
    /\ (both_done /\ both_lock /\ same_node /\ uncovered
        /\ ~call[1].shared /\ ~call[2].shared) => one_winner

\* What holds of C4: the calls of every method are serial, and of two
\* exclusive acquires of one path that are each granted when run alone,
\* one gets the lock and the other Conflict with it.
C4_Serial ==
    /\ serial
    /\ (both_done /\ both_lock /\ same_node /\ both_grantable
        /\ ~call[1].shared /\ ~call[2].shared) => one_winner

\* Thread 2 called while thread 1 was inside its call, both for the same
\* path and exclusive, on a manager that held a lock elsewhere; thread 1
\* got the lock and thread 2 the conflict.
C4_Witness ==
    /\ both_done /\ both_lock
    /\ entries(base.tree) # {}
    /\ call[2].busy = 1
    /\ call[1].path = call[2].path
    /\ ~call[1].shared /\ ~call[2].shared
    /\ out[1].tag = "Ok" /\ out[2].tag = "Err"
    /\ out[2].val = out[1].val

\* Both calls returned a lock, with different tokens, and while either of
\* the two locks is held an exclusive acquire of the path is refused.
both_succeed ==
    /\ out[1].tag = "Ok" /\ out[2].tag = "Ok"
    /\ out[1].val[1].token # out[2].val[1].token
    /\ \A p \in { call[1].path, call[2].path }, deep \in BOOLEAN :
          /\ lock_conflicts(tree, p, FALSE, deep) # {}
          /\ \A t \in Threads :
                lock_conflicts(
                    unlock(tree, out[t].val[1].path, out[t].val[1].token).tree,
                    p, FALSE, deep) # {}

\* C5: when no lock covers P, two concurrent shared acquires of P both
\* succeed, with distinct tokens, in every interleaving; while either of the
\* two locks is held, an exclusive acquire of P fails with Conflict.
C5_SharedBothSucceed ==
    (both_done /\ both_lock /\ same_node /\ uncovered
     /\ call[1].shared /\ call[2].shared) => both_succeed

\* What holds of C5: two shared acquires of one path that are each granted
\* when run alone both succeed.
C5_SharedBothGranted ==
    (both_done /\ both_lock /\ same_node /\ both_grantable
     /\ call[1].shared /\ call[2].shared) => both_succeed

\* Thread 2 called while thread 1 was inside its call, both shared and for
\* the same path below the root; both got a lock, and the first has been
\* released in the tree the exclusive acquire is tried on.
C5_Witness ==
    /\ both_done /\ both_lock
    /\ call[2].busy = 1
    /\ call[1].path = call[2].path
    /\ segs_of(call[1].path) # ROOT_ID
    /\ call[1].shared /\ call[2].shared
    /\ out[1].tag = "Ok" /\ out[2].tag = "Ok"
    /\ lock_conflicts(unlock(tree, out[1].val[1].path, out[1].val[1].token).tree,
                      call[1].path, FALSE, FALSE) = { out[2].val[1] }

\* C6 (as amended): while a deep lock is held at P, every acquire at a
\* descendant of P fails with Conflict, unless the held lock and the request
\* are both shared.
C6_DeepBlocksDescendants ==
    \A e \in entries(tree) : \A p \in Paths, shared \in BOOLEAN, deep \in BOOLEAN :
        ( /\ lock_at(tree, e).deep
          /\ strictly_below(segs_of(p), e[1])
          /\ (~lock_at(tree, e).shared \/ ~shared) )
        => lock_conflicts(tree, p, shared, deep) # {}

\* C6 as claimed: whatever the shared flags of the held lock and of the
\* request.
C6_Claimed ==
    \A e \in entries(tree) : \A p \in Paths, shared \in BOOLEAN, deep \in BOOLEAN :
        ( /\ lock_at(tree, e).deep
          /\ strictly_below(segs_of(p), e[1]) )
        => lock_conflicts(tree, p, shared, deep) # {}

\* A shared deep lock is held, and the last call, an exclusive acquire
\* below it, returned it as the conflict.
C6_Witness ==
    \E e \in entries(tree) : \E p \in Paths :
        /\ lock_at(tree, e).deep /\ lock_at(tree, e).shared
        /\ strictly_below(segs_of(p), e[1])
        /\ lock_conflicts(tree, p, FALSE, FALSE) = { lock_at(tree, e) }
        /\ lock_conflicts(tree, p, TRUE, FALSE) = {}
        /\ ret.op = "lock" /\ ret.tag = "Err"
        /\ ret.tok = lock_at(tree, e).token

\* C7: a lock that is not deep never blocks an acquire at a strict
\* descendant of its path: the acquire returns what it returns on the tree
\* without that lock.
C7_NonDeepDoesNotBlockBelow ==
    \A e \in entries(tree) : \A p \in Paths, shared \in BOOLEAN, deep \in BOOLEAN :
        ( /\ ~lock_at(tree, e).deep
          /\ strictly_below(segs_of(p), e[1]) )
        => lock_conflicts(tree, p, shared, deep)
           = lock_conflicts(without(tree, e), p, shared, deep)

\* An exclusive lock that is not deep is held below the root, and the last
\* call acquired a lock at a strict descendant of its path.
C7_Witness ==
    \E e1, e2 \in entries(tree) :
        /\ ~lock_at(tree, e1).deep /\ ~lock_at(tree, e1).shared
        /\ e1[1] # ROOT_ID
        /\ strictly_below(e2[1], e1[1])
        /\ lock_at(tree, e1).token < lock_at(tree, e2).token
        /\ ret.op = "lock" /\ ret.tag = "Ok"
        /\ ret.tok = lock_at(tree, e2).token

\* The deep locks attached at proper ancestors of node q that refuse a
\* request: the exclusive ones, and all of them for an exclusive request.
blocking_above(t, q, shared) ==
    { e \in entries(t) : /\ strictly_below(q, e[1])
                         /\ lock_at(t, e).deep
                         /\ (~lock_at(t, e).shared \/ ~shared) }

\* What holds after cascadeDelete(P): no node, and so no lock, at P or below
\* P remains, and enumerate(P) returns only locks attached at proper
\* ancestors of P; on a manager that has its root, for P below the root, an
\* acquire at P or under P is granted exactly when no deep lock attached at
\* a proper ancestor of P refuses it.
C8_AfterCascadeDelete ==
    \A p \in Paths :
        LET t2 == delete(tree, p)
            q == segs_of(p)
            found == discover(t2, p) IN
        /\ \A n \in DOMAIN t2 : ~is_prefix(q, n)
        /\ \A i \in 1 .. Len(found) : strictly_below(q, segs_of(found[i].path))
        /\ (q # ROOT_ID /\ ROOT_ID \in DOMAIN tree) =>
              \A p2 \in Paths, shared \in BOOLEAN, deep \in BOOLEAN :
                  is_prefix(q, segs_of(p2)) =>
                      /\ ROOT_ID \in DOMAIN t2
                      /\ (lock_conflicts(t2, p2, shared, deep) = {})
                         <=> (blocking_above(t2, q, shared) = {})

\* C8: after cascadeDelete(P), for every path P, the root included, no
\* lock attached at P or below P remains, enumerate(P) returns the empty
\* list, and every acquire at P or at a path under P succeeds, whatever its
\* flags and whatever locks are held elsewhere.
C8_Claimed ==
    \A p \in Paths :
        LET t2 == delete(tree, p)
            q == segs_of(p) IN
        /\ \A e \in entries(t2) : ~is_prefix(q, e[1])
        /\ discover(t2, p) = <<>>
        /\ \A p2 \in Paths, shared \in BOOLEAN, deep \in BOOLEAN :
              is_prefix(q, segs_of(p2)) =>
                  \A o \in lock_alone(t2, uuid, [ path |-> p2, shared |-> shared,
                                                  deep |-> deep ]) :
                      o.out.tag = "Ok"

\* The same for the paths below the root on a manager that has its root:
\* there the acquire does not panic, and the claim still fails.
C8_ClaimedBelowRoot ==
    \A p \in Paths :
        LET t2 == delete(tree, p)
            q == segs_of(p) IN
        (q # ROOT_ID /\ ROOT_ID \in DOMAIN tree) =>
            /\ discover(t2, p) = <<>>
            /\ \A p2 \in Paths, shared \in BOOLEAN, deep \in BOOLEAN :
                  is_prefix(q, segs_of(p2)) =>
                      lock_conflicts(t2, p2, shared, deep) = {}

\* The last call was a cascadeDelete of a path below the root that removed
\* a lock, and a lock attached elsewhere is still held.
C8_Witness ==
    /\ ret.op = "delete"
    /\ segs_of(ret.path) # ROOT_ID
    /\ uuid = 2
    /\ Cardinality(entries(tree)) = 1
    /\ \A n \in DOMAIN tree : ~is_prefix(segs_of(ret.path), n)
    /\ \E e \in entries(tree) :
          /\ strictly_below(segs_of(ret.path), e[1])
          /\ lock_at(tree, e).deep

\* C9: a successful refresh(P, T, timeout) changes the timeout and the
\* timeout_at of the lock with token T and nothing else: the lock's other
\* fields, the other locks and the nodes are as before, the lock is
\* returned, and release(P, T) then succeeds.
C9_RefreshFrame ==
    \A p \in TimePaths, token \in Tokens, timeout \in Timeouts :
        LET r == refresh(tree, p, token, timeout, now) IN
        r.res.tag = "Ok" =>
            /\ DOMAIN r.tree = DOMAIN tree
            /\ \A n \in DOMAIN tree :
                  /\ Len(r.tree[n]) = Len(tree[n])
                  /\ \A k \in 1 .. Len(tree[n]) :
                        IF tree[n][k].token = token
                        THEN /\ r.tree[n][k] =
                                  DavLock(token, tree[n][k].path, tree[n][k].owner,
                                          IF timeout = <<>> THEN <<>>
                                          ELSE << now + timeout[1] >>,
                                          timeout, tree[n][k].shared,
                                          tree[n][k].deep)
                             /\ r.res.val = << r.tree[n][k] >>
                        ELSE r.tree[n][k] = tree[n][k]
            /\ unlock(r.tree, p, token).res.tag = "Ok"
            /\ \A e \in entries(unlock(r.tree, p, token).tree) :
                  lock_at(unlock(r.tree, p, token).tree, e).token # token

\* The last call refreshed, after the clock advanced, a lock that has an
\* owner, while another lock is held.
C9_Witness ==
    /\ ret.op = "refresh" /\ ret.tag = "Ok"
    /\ now > 0
    /\ Cardinality(entries(tree)) = 2
    /\ \E e \in entries(tree) :
          /\ lock_at(tree, e).token = ret.tok
          /\ lock_at(tree, e).owner = AnOwner
          /\ lock_at(tree, e).timeout = <<0>>
          /\ lock_at(tree, e).timeout_at = << now >>

\* C10: token uniqueness: in every reachable state no two held locks carry
\* the same token.
C10_TokensUnique ==
    \A e1, e2 \in entries(tree) :
        lock_at(tree, e1).token = lock_at(tree, e2).token => e1 = e2

\* Two locks are held, the second granted by the last call.
C10_Witness ==
    /\ Cardinality(entries(tree)) = 2
    /\ ret.op = "lock" /\ ret.tag = "Ok"
    /\ \E e1, e2 \in entries(tree) :
          /\ lock_at(tree, e1).token = 1
          /\ lock_at(tree, e2).token = 2
          /\ ret.tok = 2

\* C11: verify and enumerate are read-only: a step that ends with a verify
\* or an enumerate as the last call, whatever it returned, leaves the nodes
\* of the trie and every field of every lock as they were.
C11_ReadOnly ==
    [][ ret'.op \in { "check", "discover" } =>
            /\ tree' = tree
            /\ uuid' = uuid
            /\ poisoned' = poisoned ]_vars

\* The last call was a verify that returned Conflict with one of two held
\* locks.
C11_Witness ==
    /\ ret.op = "check" /\ ret.tag = "Err"
    /\ Cardinality(entries(tree)) = 2
    /\ \E e \in entries(tree) : lock_at(tree, e).token = ret.tok

\* The locks of the nodes on the chain from the root to node q, the nodes
\* taken in root-to-target order, each with its locks in list order.
RECURSIVE chain_locks(_, _, _)
chain_locks(t, q, i) ==
    IF i > Len(q) THEN <<>>
    ELSE LET n == SubSeq(q, 1, i) IN
         (IF n \in DOMAIN t THEN t[n] ELSE <<>>) \o chain_locks(t, q, i + 1)

\* C12: enumerate(P) returns exactly the locks attached at the root and at
\* each existing node on the chain from the root to P, P included, in
\* root-to-target order and whatever their flags; it returns no lock of a
\* strict descendant of P or of a node off the chain, and the empty list
\* when the chain holds no lock.
C12_EnumerateChain ==
    \A p \in Paths :
        LET q == segs_of(p)
            found == discover(tree, p) IN
        /\ found = chain_locks(tree, q, 0)
        /\ \A i \in 1 .. Len(found) : is_prefix(segs_of(found[i].path), q)
        /\ \A e \in entries(tree) :
               is_prefix(e[1], q) <=>
                   \E i \in 1 .. Len(found) : found[i] = lock_at(tree, e)
        /\ \A i, j \in 1 .. Len(found) :
               i < j => Len(segs_of(found[i].path)) <= Len(segs_of(found[j].path))
        /\ (\A e \in entries(tree) : ~is_prefix(e[1], q)) => found = <<>>

\* The last call was an enumerate; a lock that is not deep is held on a
\* proper ancestor of a path whose node holds the other lock, and the
\* enumerate of that path lists the two, the ancestor's first.
C12_Witness ==
    /\ ret.op = "discover" /\ ret.tag = "Ok"
    /\ \E e1, e2 \in entries(tree) : \E p \in Paths :
           /\ strictly_below(e2[1], e1[1])
           /\ ~lock_at(tree, e1).deep
           /\ segs_of(p) = e2[1]
           /\ discover(tree, p) = << lock_at(tree, e1), lock_at(tree, e2) >>

\* The places on the chain from the root to node q, q included, whose lock
\* carries the token.
holders(t, q, token) ==
    { e \in entries(t) : is_prefix(e[1], q) /\ lock_at(t, e).token = token }

\* release and refresh of (p, token) on tree t both fail and leave t as it is.
both_not_found(t, p, token) ==
    /\ unlock(t, p, token) = [ res |-> Err(<<>>), tree |-> t ]
    /\ refresh(t, p, token, <<>>, now) = [ res |-> Err(<<>>), tree |-> t ]

\* release and refresh of (p, token) on tree t both succeed and act on the
\* lock at place e: release removes it, refresh returns it.
both_act_on(t, p, token, e) ==
    LET u == unlock(t, p, token)
        r == refresh(t, p, token, <<>>, now) IN
    /\ u.res = Ok(<<>>)
    /\ \A n \in DOMAIN u.tree : u.tree[n] = without(t, e)[n]
    /\ r.res.tag = "Ok"
    /\ r.res.val[1].token = token
    /\ r.tree[e[1]][e[2]] = r.res.val[1]

\* C13: release and refresh return NotFound and leave the trie unchanged
\* whenever no node on the chain from the root to P holds a lock with the
\* token (the lock is off the chain, or below P, or not held); they succeed,
\* acting on that lock, when the lock with the token is attached at P or at
\* an ancestor of P that is not the root.
C13_NotFoundOffChain ==
    \A p \in Paths, token \in Tokens :
        LET q == segs_of(p) IN
        /\ holders(tree, q, token) = {} => both_not_found(tree, p, token)
        /\ \A e \in holders(tree, q, token) :
               (e[1] = q \/ e[1] # ROOT_ID) => both_act_on(tree, p, token, e)

\* The same with the locks attached at the root left out of the second half.
C13_BelowRoot ==
    \A p \in Paths, token \in Tokens :
        LET q == segs_of(p) IN
        /\ holders(tree, q, token) = {} => both_not_found(tree, p, token)
        /\ \A e \in holders(tree, q, token) :
               e[1] # ROOT_ID => both_act_on(tree, p, token, e)

\* A lock attached at the root is found by neither call, from any path.
C13_RootNeverFound ==
    \A p \in Paths, token \in Tokens :
        (\E e \in holders(tree, segs_of(p), token) : e[1] = ROOT_ID)
        => both_not_found(tree, p, token)

\* A node that holds no lock and has no child.
bare(t, n) == t[n] = <<>> /\ get_children(t, n) = {}

\* C14: in every reachable state, every node of the trie other than the
\* root holds at least one lock or has at least one child: bare nodes are
\* pruned.
C14_NoBareNodes ==
    \A n \in DOMAIN tree : n # ROOT_ID => ~bare(tree, n)

\* What the calls do keep: every node other than the root has its parent.
C14_ParentsExist ==
    \A n \in DOMAIN tree : n # ROOT_ID => SubSeq(n, 1, Len(n) - 1) \in DOMAIN tree

\* C15: verify(P, tokens) returns Ok exactly when no held lock covers P or
\* at least one presented token is the token of a lock that covers P;
\* otherwise it returns Conflict with a lock that covers P and whose token
\* was not presented.  In particular a verify below an exclusive deep lock
\* succeeds with the token of that lock, and a verify without tokens
\* succeeds once the lock is released.
C15_VerifyTokens ==
    \A p \in Paths :
        LET q == segs_of(p)
            cov == covering(tree, q) IN
        /\ \A tokens \in SUBSET Tokens :
               LET res == check(tree, p, tokens) IN
               /\ res.tag = "Ok" <=>
                      (cov = {} \/ \E l \in cov : l.token \in tokens)
               /\ res.tag = "Err" =>
                      /\ Len(res.val) = 1
                      /\ res.val[1] \in cov
                      /\ res.val[1].token \notin tokens
        /\ \A e \in entries(tree) :
               LET lock == lock_at(tree, e)
                   r == unlock(tree, lock.path, lock.token) IN
               (~lock.shared /\ lock.deep /\ strictly_below(q, e[1])) =>
                   /\ check(tree, p, { lock.token }) = Ok(<<>>)
                   /\ r.res.tag = "Ok" => check(r.tree, p, {}) = Ok(<<>>)

\* The last call was a verify that returned Ok; an exclusive deep lock is
\* held on /a, a verify of /a/b with its token succeeds and one without
\* tokens returns Conflict with it.
C15_Witness ==
    /\ ret.op = "check" /\ ret.tag = "Ok"
    /\ \E e \in entries(tree) :
           LET lock == lock_at(tree, e) IN
           /\ ~lock.shared /\ lock.deep /\ e[1] = << <<"a">> >>
           /\ check(tree, <<"/", "a", "/", "b">>, { lock.token }) = Ok(<<>>)
           /\ check(tree, <<"/", "a", "/", "b">>, {}) = Err(<<lock>>)

\* C16 (as amended): whenever a presented token is the token of a lock the
\* walk from the root to P evaluates (a lock attached at P, or a deep lock
\* attached at an ancestor of P), verify returns no shared lock as the
\* conflict, even when another shared lock it evaluates has no presented
\* token; an evaluated exclusive lock whose token was not presented is
\* returned as the conflict.
C16_MatchSuppressesShared ==
    \A p \in Paths, tokens \in SUBSET Tokens :
        LET cov == covering(tree, segs_of(p))
            res == check(tree, p, tokens) IN
        /\ (\E l \in cov : l.token \in tokens) =>
               ~(res.tag = "Err" /\ res.val[1].shared)
        /\ \A l \in cov :
               (~l.shared /\ l.token \notin tokens) => res = Err(<<l>>)

\* C16 as claimed: the same for a presented token that is the token of any
\* lock on any node the walk visits, evaluated or skipped.
C16_Claimed ==
    \A p \in Paths, tokens \in SUBSET Tokens :
        LET res == check(tree, p, tokens) IN
        /\ (\E e \in entries(tree) :
               /\ is_prefix(e[1], segs_of(p))
               /\ lock_at(tree, e).token \in tokens) =>
               ~(res.tag = "Err" /\ res.val[1].shared)
        /\ \A l \in covering(tree, segs_of(p)) :
               (~l.shared /\ l.token \notin tokens) => res = Err(<<l>>)

\* The last call was a verify that returned Ok; two shared locks cover
\* /a/b, a deep one on /a and one on /a/b, and a verify of /a/b succeeds
\* with the token of either alone and conflicts without tokens.
C16_Witness ==
    /\ ret.op = "check" /\ ret.tag = "Ok"
    /\ \E e1, e2 \in entries(tree) :
           LET l1 == lock_at(tree, e1)
               l2 == lock_at(tree, e2)
               ab == <<"/", "a", "/", "b">> IN
           /\ e1[1] = << <<"a">> >> /\ l1.shared /\ l1.deep
           /\ e2[1] = << <<"a">>, <<"b">> >> /\ l2.shared
           /\ check(tree, ab, { l1.token }) = Ok(<<>>)
           /\ check(tree, ab, { l2.token }) = Ok(<<>>)
           /\ check(tree, ab, {}) = Err(<<l1>>)

\* The held locks attached at node q or below it.
at_or_below(t, q) ==
    { lock_at(t, e) : e \in { e \in entries(t) : is_prefix(q, e[1]) } }

\* The tree with the same nodes and no lock strictly below node q.
cleared_below(t, q) ==
    [ n \in DOMAIN t |-> IF strictly_below(n, q) THEN <<>> ELSE t[n] ]

\* C17: acquire(P, deep, exclusive) fails whenever a lock is attached at P
\* or below P; acquire(P, deep, shared) fails exactly when the walk from the
\* root to P conflicts (an exclusive lock covers P) or an exclusive lock is
\* attached at P or below P, so it tolerates shared locks there; acquire(P,
\* not deep) returns what it returns without the locks strictly below P.
C17_SubtreeCheck ==
    \A p \in Paths :
        LET q == segs_of(p)
            walk == check_locks_to_path(tree, p, {}, TRUE) IN
        /\ at_or_below(tree, q) # {} =>
               lock_conflicts(tree, p, FALSE, TRUE) # {}
        /\ walk.tag = "Err" <=> \E l \in covering(tree, q) : ~l.shared
        /\ lock_conflicts(tree, p, TRUE, TRUE) # {} <=>
               \/ walk.tag = "Err"
               \/ \E l \in at_or_below(tree, q) : ~l.shared
        /\ \A shared \in BOOLEAN :
               lock_conflicts(tree, p, shared, FALSE)
               = lock_conflicts(cleared_below(tree, q), p, shared, FALSE)

\* The last call, an acquire, was granted a deep shared lock on /a while a
\* shared lock was held on /a/b; a deep exclusive acquire of /a conflicts,
\* and an exclusive acquire of / that is not deep does not.
C17_Witness ==
    /\ ret.op = "lock" /\ ret.tag = "Ok" /\ ret.tok = 2
    /\ \E e1, e2 \in entries(tree) :
           LET l1 == lock_at(tree, e1)
               l2 == lock_at(tree, e2) IN
           /\ e1[1] = << <<"a">>, <<"b">> >> /\ l1.shared /\ l1.token = 1
           /\ e2[1] = << <<"a">> >> /\ l2.shared /\ l2.deep /\ l2.token = 2
    /\ lock_conflicts(tree, <<"/", "a">>, FALSE, TRUE) # {}
    /\ lock_conflicts(tree, <<"/">>, FALSE, FALSE) = {}

\* The locks of a list other than the one with the token, in list order.
others(locks, token) == SelectSeq(locks, LAMBDA l : l.token # token)

\* C18: a release(P, T) that returns Ok removes the lock with token T and
\* nothing else: every other lock stays on its node with its fields and its
\* place among the others, and is still found by enumerate, by verify and
\* by the conflict checks of acquire on its own path, also when the
\* released lock was the last one of a node that has children.
C18_ReleaseFrame ==
    \A p \in Paths, token \in Tokens :
        LET r == unlock(tree, p, token) IN
        r.res.tag = "Ok" =>
            /\ \E e \in entries(tree) : lock_at(tree, e).token = token
            /\ \A e \in entries(r.tree) : lock_at(r.tree, e).token # token
            /\ \A n \in DOMAIN tree :
                   others(tree[n], token) # <<>> =>
                       /\ n \in DOMAIN r.tree
                       /\ r.tree[n] = others(tree[n], token)
            /\ \A n \in DOMAIN r.tree : n \in DOMAIN tree
            /\ \A e \in entries(r.tree) :
                   LET l == lock_at(r.tree, e)
                       found == discover(r.tree, l.path) IN
                   /\ \E i \in 1 .. Len(found) : found[i] = l
                   /\ check(r.tree, l.path, {}).tag = "Err"
                   /\ check(r.tree, l.path, { l.token }) = Ok(<<>>)
                   /\ lock_conflicts(r.tree, l.path, FALSE, FALSE) # {}

\* The last call was a release that returned Ok; the node /a holds no lock
\* and has the child /a/b, whose lock is still enumerated and still
\* refuses an acquire.
C18_Witness ==
    /\ ret.op = "unlock" /\ ret.tag = "Ok"
    /\ << <<"a">> >> \in DOMAIN tree
    /\ tree[<< <<"a">> >>] = <<>>
    /\ << <<"a">>, <<"b">> >> \in DOMAIN tree
    /\ Len(tree[<< <<"a">>, <<"b">> >>]) = 1
    /\ uuid = 2
    /\ discover(tree, <<"/", "a", "/", "b">>) = tree[<< <<"a">>, <<"b">> >>]
    /\ lock_conflicts(tree, <<"/", "a", "/", "b">>, FALSE, FALSE) # {}

\* C19: an acquire that returns Conflict leaves the trie as it was: no lock
\* is added and no node is created, the intermediate nodes included.  An
\* acquire that succeeds adds one lock, the one it returns, as the last lock
\* of the node of the requested path, creates no node off the chain to that
\* node, and changes no lock that was held.
C19_AcquireFrame ==
    [][ ret'.op = "lock" =>
          /\ ret'.tag = "Err" => (tree' = tree /\ uuid' = uuid)
          /\ ret'.tag = "Ok" =>
               \E p \in Paths :
                   LET q == segs_of(p) IN
                   /\ q \in DOMAIN tree'
                   /\ tree'[q] # <<>>
                   /\ tree'[q][Len(tree'[q])].token = ret'.tok
                   /\ tree'[q][Len(tree'[q])].path = p
                   /\ \A e \in entries(tree) : lock_at(tree, e).token # ret'.tok
                   /\ \A n \in DOMAIN tree :
                          /\ n \in DOMAIN tree'
                          /\ n # q => tree'[n] = tree[n]
                          /\ n = q => tree'[n] = Append(tree[n], tree'[q][Len(tree'[q])])
                   /\ \A n \in DOMAIN tree' \ DOMAIN tree :
                          /\ is_prefix(n, q)
                          /\ n # q => tree'[n] = <<>>
                          /\ n = q => Len(tree'[n]) = 1 ]_vars

\* The last call, an acquire, returned Conflict with the exclusive deep
\* lock held on /a; an acquire of /a/b conflicts with that lock, and the
\* trie has no node /a/b.
C19_Witness ==
    /\ ret.op = "lock" /\ ret.tag = "Err"
    /\ << <<"a">>, <<"b">> >> \notin DOMAIN tree
    /\ \E e \in entries(tree) :
           LET l == lock_at(tree, e) IN
           /\ e[1] = << <<"a">> >> /\ ~l.shared /\ l.deep
           /\ ret.tok = l.token
           /\ lock_conflicts(tree, <<"/", "a", "/", "b">>, TRUE, FALSE) = { l }

\* A lock without its timeout, and a tree of such locks.
ageless_lock(l) == [ l EXCEPT !.timeout = <<>>, !.timeout_at = <<>> ]
ageless(t) ==
    [ n \in DOMAIN t |-> [ k \in 1 .. Len(t[n]) |-> ageless_lock(t[n][k]) ] ]

\* The timeout_at of the lock has passed.
expired(l) == l.timeout_at # <<>> /\ l.timeout_at[1] < now

\* C20: no expiry is enforced.  A held lock whose timeout_at has passed is
\* still returned by enumerate, still makes verify and acquire on its path
\* return Conflict, and can still be refreshed and released; and every
\* acquire and verify returns what it returns when no lock has a timeout.
C20_NoExpiry ==
    /\ \A e \in entries(tree) :
           LET l == lock_at(tree, e)
               found == discover(tree, l.path)
               r == refresh(tree, l.path, l.token, <<0>>, now) IN
           expired(l) =>
               /\ \E i \in 1 .. Len(found) : found[i] = l
               /\ check(tree, l.path, {}).tag = "Err"
               /\ \A deep \in BOOLEAN :
                      lock_conflicts(tree, l.path, FALSE, deep) # {}
               /\ ~l.shared =>
                      \A p \in TimePaths, shared \in BOOLEAN, deep \in BOOLEAN :
                          covers(e[1], l, segs_of(p)) =>
                              lock_conflicts(tree, p, shared, deep) = { l }
               /\ r.res.tag = "Ok"
               /\ r.res.val[1].token = l.token
               /\ r.res.val[1].timeout_at = << now >>
               /\ unlock(tree, l.path, l.token).res = Ok(<<>>)
    /\ \A p \in TimePaths :
           /\ \A shared \in BOOLEAN, deep \in BOOLEAN :
                  { ageless_lock(l) : l \in lock_conflicts(tree, p, shared, deep) }
                  = lock_conflicts(ageless(tree), p, shared, deep)
           /\ \A tokens \in SUBSET Tokens :
                  LET res == check(tree, p, tokens) IN
                  check(ageless(tree), p, tokens)
                  = [ res EXCEPT !.val = [ k \in 1 .. Len(res.val) |->
                                             ageless_lock(res.val[k]) ] ]

\* Two shared locks are held on one node; the timeout_at of the first has
\* passed, the second got its timeout_at at the present time, and the call
\* after that, an acquire, returned Conflict with the first.
C20_Witness ==
    /\ ret.op = "lock" /\ ret.tag = "Err"
    /\ now = 1
    /\ \E n \in DOMAIN tree :
           /\ Len(tree[n]) = 2
           /\ tree[n][1].shared /\ tree[n][2].shared
           /\ tree[n][1].timeout_at = <<0>>
           /\ tree[n][2].timeout_at = <<1>>
           /\ expired(tree[n][1])
           /\ ret.tok = tree[n][1].token

====
